---- MODULE Spec2Model ----
(***************************************************************************)
(* The lobby state machine of server.ts: the registry `lobbies`, the       *)
(* socket.io rooms, the pending setTimeout callbacks, and one action per   *)
(* socket event handler.                                                   *)
(***************************************************************************)
EXTENDS Integers, Sequences, FiniteSets, TLC

VARIABLES
  lobbies,   \* Record<string, Lobby>: a function whose domain is the codes in use
  rooms,     \* socket.io rooms: code -> set of sockets that joined and did not leave
  conn,      \* the sockets whose connection is open (handlers registered)
  timers,    \* the pending setTimeout callbacks of start_game, oldest first
  uuid,      \* how many ids uuidv4() has handed out
  out        \* what the last handler emitted, in order

vars == <<lobbies, rooms, conn, timers, uuid, out>>

----------------------------------------------------------------------------
(* Bounds of the model *)

NumSockets == 4      \* socket ids are 1..NumSockets
NumCodes == 1        \* lobby codes are 1..NumCodes
MaxPlayers == 4      \* join_lobby is not explored beyond this many entries
MaxTimers == 2       \* start_game is not explored with this many timers pending
MaxUuid == 32        \* uuidv4() is not explored beyond this many ids
TaskArgs == 1        \* task events address the first TaskArgs tasks, or no task
PlayTasks == 2       \* and the first PlayTasks tasks where the game itself is explored
MaxClues == 1        \* the clock is not explored beyond this many clues in a lobby

(* Constants of the program *)

NumTasks == 15
MinPlayers == 3
GameMs == 300000
SpawnX == 1000
SpawnY == 1000
NumColors == 10

Sockets == 1..NumSockets
Codes == 1..NumCodes
Null == "null"       \* null of a string-valued field (role, winner)
NoId == 0            \* null/undefined of an id-valued or numeric field
Alex == <<0>>                  \* a display name; `${name} ${counter}` is Append(name, counter)
Names == {Alex}                \* the display names clients ask for
\* the outcomes of generateAttributes() explored for client s: one, unlike any other client's
Profiles(s) == {<<"attributes", s>>}
JoinXs == {1000}               \* samples of 1000 + Math.random() * 100 - 50
MoveXYs == {<<1200, 800>>}       \* coordinates clients report
Times == {7}                   \* samples of Date.now()
TaskXYs == {<<200, 200>>}      \* samples of the random task position
TaskTypes == {"word_fuse"}     \* samples of the random task type
UnknownTask == 0               \* a task id no task has

----------------------------------------------------------------------------
(* Array helpers *)

Range(seq) == {seq[i] : i \in 1..Len(seq)}

\* Array.prototype.findIndex, 1-based; 0 for -1
FindIndex(seq, P(_)) ==
  IF \E i \in 1..Len(seq) : P(seq[i])
  THEN CHOOSE i \in 1..Len(seq) : P(seq[i]) /\ \A j \in 1..(i - 1) : ~P(seq[j])
  ELSE 0

\* Array.prototype.splice(i, 1)
Splice(seq, i) == [k \in 1..(Len(seq) - 1) |-> IF k < i THEN seq[k] ELSE seq[k + 1]]

\* lobby.players.findIndex(p => p.id === socket.id)
PlayerIndex(lobby, s) == FindIndex(lobby.players, LAMBDA p : p.id = s)

IsPlayer(lobby, s) == PlayerIndex(lobby, s) # 0

Exists(lobbyId) == lobbyId \in DOMAIN lobbies

\* a status guard gone wrong: lobby alone, whatever its status
InPhaseAny(lobbyId, phase) == Exists(lobbyId)

\* lobby && lobby.status === phase
InPhase(lobbyId, phase) == Exists(lobbyId) /\ lobbies[lobbyId].status = phase

\* lobbies[lobbyId] = lobby
Put(lobbyId, lobby) ==
  [c \in DOMAIN lobbies \cup {lobbyId} |-> IF c = lobbyId THEN lobby ELSE lobbies[c]]

\* delete lobbies[lobbyId]
Delete(lobbyId) == [c \in DOMAIN lobbies \ {lobbyId} |-> lobbies[c]]

----------------------------------------------------------------------------
(* Emissions *)

\* io.to(room).emit(ev, payload)
ToRoom(ev, room) == [ev |-> ev, room |-> room, sock |-> NoId, res |-> Null]
\* socket.emit(ev)
ToSocket(ev, s) == [ev |-> ev, room |-> NoId, sock |-> s, res |-> Null]
\* an emission gone wrong: to the whole room, the sender included
ToAll(ev, room, s) == [ev |-> ev, room |-> room, sock |-> NoId, res |-> Null]

\* socket.to(room).volatile.emit(ev, payload): the room without the sender
ToOthers(ev, room, s) == [ev |-> ev, room |-> room, sock |-> s, res |-> Null]
\* callback(res)
Callback(s, res) == [ev |-> "callback", room |-> NoId, sock |-> s, res |-> res]

----------------------------------------------------------------------------
(* Pure functions of server.ts *)

\* a swap gone wrong: roles[i] = roles[j] alone, which loses a role
SwapOverwrite(roles, i, j) == [roles EXCEPT ![i] = roles[j]]

\* [roles[i], roles[j]] = [roles[j], roles[i]], 1-based
Swap(roles, i, j) ==
  [k \in 1..Len(roles) |-> IF k = i THEN roles[j] ELSE IF k = j THEN roles[i] ELSE roles[k]]

\* the role pool of assignRoles before the shuffle
RolePool(n) ==
  LET base == <<"killer", "witness", "investigator">>
      four == IF n >= 4 THEN Append(base, "forensics") ELSE base
  IN  four \o [k \in 1..(n - Len(four)) |-> "investigator"]

\* the outcomes of Math.floor(Math.random() * (i + 1)) for i = len-1 .. 1
ShuffleDraws(len) == {js \in [1..(len - 1) -> 0..(len - 1)] : \A i \in 1..(len - 1) : js[i] <= i}

\* for (let i = roles.length - 1; i > 0; i--) swap(roles[i], roles[j]), 0-based i and j
RECURSIVE Shuffle(_, _, _)
Shuffle(roles, i, js) ==
  IF i <= 0 THEN roles ELSE Shuffle(Swap(roles, i + 1, js[i] + 1), i - 1, js)

\* players.forEach((p, i) => p.role = roles[i])
assignRoles(players, js) ==
  LET pool == RolePool(Len(players))
      roles == Shuffle(pool, Len(pool) - 1, js)
  IN  [i \in 1..Len(players) |-> [players[i] EXCEPT !.role = roles[i]]]

\* generateTasks(): 15 tasks with fresh ids, none completed, nobody locked out
generateTasks(first, xy, type) ==
  [i \in 1..NumTasks |->
    [id |-> first + i, x |-> xy[1], y |-> xy[2], type |-> type,
     completed |-> FALSE, lockedFor |-> <<>>]]

\* the text the clue vocabulary gives for a player's attributes
ClueText(attributes) == <<"clue about", attributes>>

\* lobby.players.filter(p => p.role !== "killer")
NonKillers(lobby) == SelectSeq(lobby.players, LAMBDA p : p.role # "killer")

\* the player generateClue describes; r is Math.floor(Math.random() * nonKillers.length)
ClueTarget(lobby, isTampered, r) ==
  IF isTampered
  THEN IF r + 1 \in 1..Len(NonKillers(lobby)) THEN NonKillers(lobby)[r + 1] ELSE lobby.players[1]
  ELSE LET k == FindIndex(lobby.players, LAMBDA p : p.role = "killer")
       IN  IF k # 0 THEN lobby.players[k] ELSE lobby.players[1]

\* the values r can take in generateClue
ClueDraws(lobby) == 0..(IF Len(NonKillers(lobby)) = 0 THEN 0 ELSE Len(NonKillers(lobby)) - 1)

generateClue(lobby, isTampered, r) == ClueText(ClueTarget(lobby, isTampered, r).attributes)

\* a name loop gone wrong: the name as asked for
NameAsAsked(players, name, finalName, counter) == finalName

\* while (players.some(p => p.name === finalName)) finalName = `${name} ${counter++}`
RECURSIVE FinalName(_, _, _, _)
FinalName(players, name, finalName, counter) ==
  IF \E i \in 1..Len(players) : players[i].name = finalName
  THEN FinalName(players, name, Append(name, counter), counter + 1)
  ELSE finalName

NewPlayer(s, name, attributes, isHost, x, y, color) ==
  [id |-> s, name |-> name, role |-> Null, attributes |-> attributes, isHost |-> isHost,
   votedFor |-> NoId, x |-> x, y |-> y, color |-> color, hasStolenClue |-> FALSE]

----------------------------------------------------------------------------
(* The state after the server has started and the clients have connected *)

Init ==
  /\ lobbies = <<>>
  /\ rooms = [c \in Codes |-> {}]
  /\ conn = Sockets
  /\ timers = <<>>
  /\ uuid = 0
  /\ out = <<>>

----------------------------------------------------------------------------
(* Handlers *)

\* the lobby create_lobby stores
NewLobby(lobbyId, s, name, attributes) ==
  [id |-> lobbyId, status |-> "lobby",
   players |-> <<NewPlayer(s, name, attributes, TRUE, SpawnX, SpawnY, 0)>>,
   clues |-> <<>>, tasks |-> <<>>, startTime |-> NoId, endTime |-> NoId,
   winner |-> Null]

\* socket.on("create_lobby"); lobbyId is what Math.random().toString(36) gave
CreateLobby(s, lobbyId, name, attributes) ==
  /\ s \in conn
  /\ lobbies' = Put(lobbyId, NewLobby(lobbyId, s, name, attributes))
  /\ rooms' = [rooms EXCEPT ![lobbyId] = @ \cup {s}]
  /\ out' = <<Callback(s, "ok"), ToRoom("lobby_update", lobbyId)>>
  /\ UNCHANGED <<conn, timers, uuid>>

\* the lobby after join_lobby has pushed the new player
Joined(lobby, s, name, attributes, x, y) ==
  [lobby EXCEPT !.players =
     Append(@, NewPlayer(s, FinalName(lobby.players, name, name, 1), attributes, FALSE, x, y,
                         Len(lobby.players) % NumColors))]

\* guards gone wrong: the status of the lobby is not looked at
JoinErrorUnknownOnly(lobbyId) == IF ~Exists(lobbyId) THEN "Lobby not found" ELSE "ok"

\* guards gone wrong: a game in play still takes players
JoinErrorLate(lobbyId) ==
  IF ~Exists(lobbyId) THEN "Lobby not found"
  ELSE IF lobbies[lobbyId].status \notin {"lobby", "playing"} THEN "Game already in progress"
  ELSE "ok"

\* the error join_lobby answers with, or "ok"
JoinError(lobbyId) ==
  IF ~Exists(lobbyId) THEN "Lobby not found"
  ELSE IF lobbies[lobbyId].status # "lobby" THEN "Game already in progress"
  ELSE "ok"

\* socket.on("join_lobby")
JoinLobby(s, lobbyId, name, attributes, x, y) ==
  /\ s \in conn
  /\ IF JoinError(lobbyId) # "ok"
     THEN /\ out' = <<Callback(s, JoinError(lobbyId))>>
          /\ UNCHANGED <<lobbies, rooms>>
     ELSE /\ Len(lobbies[lobbyId].players) < MaxPlayers
          /\ lobbies' = Put(lobbyId, Joined(lobbies[lobbyId], s, name, attributes, x, y))
          /\ rooms' = [rooms EXCEPT ![lobbyId] = @ \cup {s}]
          /\ out' = <<Callback(s, "ok"), ToRoom("lobby_update", lobbyId)>>
  /\ UNCHANGED <<conn, timers, uuid>>

\* a promotion gone wrong: nobody is made host
PromoteNobody(players) == players

\* lobby.players[0].isHost = true
PromoteFirst(players) == [players EXCEPT ![1].isHost = TRUE]

\* socket.on("leave_lobby")
LeaveLobby(s, lobbyId) ==
  /\ s \in conn
  /\ IF Exists(lobbyId) /\ IsPlayer(lobbies[lobbyId], s)
     THEN LET lobby == lobbies[lobbyId]
              rest == Splice(lobby.players, PlayerIndex(lobby, s))
          IN  /\ rooms' = [rooms EXCEPT ![lobbyId] = @ \ {s}]
              /\ IF Len(rest) = 0
                 THEN /\ lobbies' = Delete(lobbyId)
                      /\ out' = <<ToSocket("left_lobby", s)>>
                 ELSE /\ lobbies' = Put(lobbyId,
                           [lobby EXCEPT !.players =
                              IF lobby.status = "lobby" THEN PromoteFirst(rest) ELSE rest])
                      /\ out' = <<ToSocket("left_lobby", s), ToRoom("lobby_update", lobbyId)>>
     ELSE /\ out' = <<>>
          /\ UNCHANGED <<lobbies, rooms>>
  /\ UNCHANGED <<conn, timers, uuid>>

\* lobby && lobby.players.find(p => p.id === socket.id)?.isHost
IsHost(lobbyId, s) ==
  /\ Exists(lobbyId)
  /\ IsPlayer(lobbies[lobbyId], s)
  /\ lobbies[lobbyId].players[PlayerIndex(lobbies[lobbyId], s)].isHost

\* guards gone wrong: any player of a lobby of three starts the game
StartByAnyPlayer(s, lobbyId) ==
  /\ Exists(lobbyId)
  /\ IsPlayer(lobbies[lobbyId], s)
  /\ Len(lobbies[lobbyId].players) >= MinPlayers

\* whether start_game gets past its guards
StartAccepted(s, lobbyId) ==
  /\ IsHost(lobbyId, s)
  /\ Len(lobbies[lobbyId].players) >= MinPlayers

\* the draws the shuffle of start_game can make on this lobby
StartDraws(lobbyId) ==
  IF Exists(lobbyId) THEN ShuffleDraws(Len(RolePool(Len(lobbies[lobbyId].players)))) ELSE {<<>>}

\* a start gone wrong: the status is left as it was
StartedStill(lobby, js, first, xy, type, now) ==
  [lobby EXCEPT !.players = assignRoles(lobby.players, js),
                !.tasks = generateTasks(first, xy, type),
                !.startTime = now,
                !.endTime = now + GameMs]

\* the lobby start_game leaves: roles, tasks, status and the two times
Started(lobby, js, first, xy, type, now) ==
  [lobby EXCEPT !.players = assignRoles(lobby.players, js),
                !.tasks = generateTasks(first, xy, type),
                !.status = "playing",
                !.startTime = now,
                !.endTime = now + GameMs]

\* socket.on("start_game"); js are the shuffle's draws, now is Date.now()
StartGame(s, lobbyId, js, xy, type, now) ==
  /\ s \in conn
  /\ IF StartAccepted(s, lobbyId)
     THEN /\ Len(timers) < MaxTimers
          /\ uuid + NumTasks <= MaxUuid
          /\ lobbies' = Put(lobbyId, Started(lobbies[lobbyId], js, uuid, xy, type, now))
          /\ uuid' = uuid + NumTasks
          /\ timers' = Append(timers, lobbyId)
          /\ out' = <<ToRoom("game_started", lobbyId)>>
     ELSE /\ out' = <<>>
          /\ UNCHANGED <<lobbies, timers, uuid>>
  /\ UNCHANGED <<conn, rooms>>

\* a guard gone wrong: the lobby alone, whatever its status
TimerDueAnyStatus(lobbyId) == Exists(lobbyId)

\* a guard gone wrong: the callback never finds its lobby playing
TimerDueNever(lobbyId) == FALSE

\* lobbies[lobbyId] && lobbies[lobbyId].status === "playing"
TimerDue(lobbyId) == Exists(lobbyId) /\ lobbies[lobbyId].status = "playing"

\* the setTimeout callback of start_game, 5 minutes later
TimerFire ==
  /\ timers # <<>>
  /\ timers' = Tail(timers)
  /\ LET lobbyId == Head(timers)
     IN  IF TimerDue(lobbyId)
         THEN /\ lobbies' = Put(lobbyId, [lobbies[lobbyId] EXCEPT !.status = "discussion"])
              /\ out' = <<ToRoom("lobby_update", lobbyId)>>
         ELSE /\ out' = <<>>
              /\ UNCHANGED lobbies
  /\ UNCHANGED <<conn, rooms, uuid>>

\* socket.on("move")
Move(s, lobbyId, x, y) ==
  /\ s \in conn
  /\ IF InPhase(lobbyId, "playing") /\ IsPlayer(lobbies[lobbyId], s)
     THEN LET lobby == lobbies[lobbyId]
              i == PlayerIndex(lobby, s)
          IN  /\ lobbies' = Put(lobbyId, [lobby EXCEPT !.players[i].x = x, !.players[i].y = y])
              /\ out' = <<ToOthers("player_moved", lobbyId, s)>>
     ELSE /\ out' = <<>>
          /\ UNCHANGED lobbies
  /\ UNCHANGED <<conn, rooms, timers, uuid>>

\* lobby.tasks.findIndex(t => t.id === taskId)
TaskIndex(lobby, taskId) == FindIndex(lobby.tasks, LAMBDA t : t.id = taskId)

\* the task ids the model's clients send: the first k tasks of the lobby and an unknown id
TaskIdsUpTo(lobbyId, k) ==
  {UnknownTask} \cup
  (IF Exists(lobbyId)
   THEN {lobbies[lobbyId].tasks[i].id : i \in 1..(IF Len(lobbies[lobbyId].tasks) < k
                                                   THEN Len(lobbies[lobbyId].tasks) ELSE k)}
   ELSE {})

TaskIds(lobbyId) == TaskIdsUpTo(lobbyId, TaskArgs)

\* a guard gone wrong: task alone, completed or not
Found(lobby, taskId) == TaskIndex(lobby, taskId) # 0

\* task && !task.completed
Pending(lobby, taskId) ==
  /\ TaskIndex(lobby, taskId) # 0
  /\ ~lobby.tasks[TaskIndex(lobby, taskId)].completed

\* an insertion gone wrong: the clue is put in front
Unshift(clues, clue) == <<clue>> \o clues

\* lobby.clues.push(clue)
Push(clues, clue) == Append(clues, clue)

\* socket.on("task_completed"); r is generateClue's draw
TaskCompleted(s, lobbyId, taskId, r) ==
  /\ s \in conn
  /\ IF /\ InPhase(lobbyId, "playing")
        /\ Pending(lobbies[lobbyId], taskId)
     THEN LET lobby == lobbies[lobbyId]
              t == TaskIndex(lobby, taskId)
              done == [lobby EXCEPT !.tasks[t].completed = TRUE]
          IN  IF IsPlayer(lobby, s)
              THEN LET player == lobby.players[PlayerIndex(lobby, s)]
                       isTampered == player.role = "killer"
                       clue == [id |-> uuid + 1, text |-> generateClue(done, isTampered, r),
                                isTampered |-> isTampered, foundBy |-> player.id]
                   IN  /\ uuid + 1 <= MaxUuid
                       /\ r \in ClueDraws(done)
                       /\ lobbies' = Put(lobbyId, [done EXCEPT !.clues = Push(@, clue)])
                       /\ uuid' = uuid + 1
                       /\ out' = <<ToRoom("task_update", lobbyId), ToRoom("clue_found", lobbyId)>>
              ELSE /\ r = 0
                   /\ lobbies' = Put(lobbyId, done)
                   /\ out' = <<>>
                   /\ UNCHANGED uuid
     ELSE /\ r = 0
          /\ out' = <<>>
          /\ UNCHANGED <<lobbies, uuid>>
  /\ UNCHANGED <<conn, rooms, timers>>

\* task.lockedFor.includes(socket.id)
Includes(seq, x) == \E i \in 1..Len(seq) : seq[i] = x

\* a test gone wrong: nobody counts as locked out
LockedNever(task, s) == FALSE

\* task.lockedFor.includes(socket.id)
Locked(task, s) == Includes(task.lockedFor, s)

\* socket.on("lock_task")
LockTask(s, lobbyId, taskId) ==
  /\ s \in conn
  /\ IF /\ InPhase(lobbyId, "playing")
        /\ TaskIndex(lobbies[lobbyId], taskId) # 0
        /\ ~Locked(lobbies[lobbyId].tasks[TaskIndex(lobbies[lobbyId], taskId)], s)
     THEN LET lobby == lobbies[lobbyId]
              t == TaskIndex(lobby, taskId)
          IN  /\ lobbies' = Put(lobbyId, [lobby EXCEPT !.tasks[t].lockedFor = Append(@, s)])
              /\ out' = <<ToRoom("task_update", lobbyId)>>
     ELSE /\ out' = <<>>
          /\ UNCHANGED lobbies
  /\ UNCHANGED <<conn, rooms, timers, uuid>>


\* a filter gone wrong: the target's clues, tampered or not
TargetCluesAll(lobby, targetPlayerId) ==
  {i \in 1..Len(lobby.clues) : lobby.clues[i].foundBy = targetPlayerId}

\* lobby.clues.filter(c => c.foundBy === targetPlayerId && !c.isTampered), as indices
TargetClues(lobby, targetPlayerId) ==
  {i \in 1..Len(lobby.clues) :
     lobby.clues[i].foundBy = targetPlayerId /\ ~lobby.clues[i].isTampered}

\* guards gone wrong: the target is not looked up
StealErrorAnyTarget(s, lobbyId, targetPlayerId) ==
  IF ~InPhase(lobbyId, "playing") THEN "Game not active"
  ELSE IF ~IsPlayer(lobbies[lobbyId], s)
          \/ lobbies[lobbyId].players[PlayerIndex(lobbies[lobbyId], s)].role # "killer"
       THEN "Only the killer can do this"
  ELSE IF lobbies[lobbyId].players[PlayerIndex(lobbies[lobbyId], s)].hasStolenClue
       THEN "Already used steal ability"
  ELSE "ok"

\* the error steal_clue answers with, or "ok"
StealError(s, lobbyId, targetPlayerId) ==
  IF ~InPhase(lobbyId, "playing") THEN "Game not active"
  ELSE IF ~IsPlayer(lobbies[lobbyId], s)
          \/ lobbies[lobbyId].players[PlayerIndex(lobbies[lobbyId], s)].role # "killer"
       THEN "Only the killer can do this"
  ELSE IF lobbies[lobbyId].players[PlayerIndex(lobbies[lobbyId], s)].hasStolenClue
       THEN "Already used steal ability"
  ELSE IF ~IsPlayer(lobbies[lobbyId], targetPlayerId) THEN "Target not found"
  ELSE "ok"

\* socket.on("steal_clue"); pick is the clue the random index selects, r is generateClue's draw
StealClue(s, lobbyId, targetPlayerId, pick, r) ==
  /\ s \in conn
  /\ IF StealError(s, lobbyId, targetPlayerId) # "ok"
     THEN /\ pick = 0 /\ r = 0
          /\ out' = <<Callback(s, StealError(s, lobbyId, targetPlayerId))>>
          /\ UNCHANGED <<lobbies, uuid>>
     ELSE LET lobby == lobbies[lobbyId]
              thief == PlayerIndex(lobby, s)
          IN  IF TargetClues(lobby, targetPlayerId) # {}
              THEN /\ pick \in TargetClues(lobby, targetPlayerId) /\ r = 0
                   /\ lobbies' = Put(lobbyId,
                        [lobby EXCEPT !.clues[pick].isTampered = TRUE,
                                      !.players[thief].hasStolenClue = TRUE])
                   /\ out' = <<ToRoom("clue_found", lobbyId), ToRoom("lobby_update", lobbyId),
                               Callback(s, "tampered")>>
                   /\ UNCHANGED uuid
              ELSE /\ pick = 0 /\ r \in ClueDraws(lobby)
                   /\ uuid + 1 <= MaxUuid
                   /\ lobbies' = Put(lobbyId,
                        [lobby EXCEPT !.clues = Push(@,
                                         [id |-> uuid + 1, text |-> generateClue(lobby, TRUE, r),
                                          isTampered |-> TRUE, foundBy |-> targetPlayerId]),
                                      !.players[thief].hasStolenClue = TRUE])
                   /\ uuid' = uuid + 1
                   /\ out' = <<ToRoom("clue_found", lobbyId), ToRoom("lobby_update", lobbyId),
                               Callback(s, "planted")>>
  /\ UNCHANGED <<conn, rooms, timers>>

\* lobby.players.every(p => p.votedFor)
AllVoted(players) == \A i \in 1..Len(players) : players[i].votedFor # NoId

\* the keys of `votes` in insertion order: each target at its first voter
RECURSIVE VoteKeys(_, _)
VoteKeys(players, i) ==
  IF i = 0 THEN <<>>
  ELSE LET before == VoteKeys(players, i - 1)
       IN  IF players[i].votedFor = NoId \/ Includes(before, players[i].votedFor)
           THEN before ELSE Append(before, players[i].votedFor)

\* votes[id]
VoteCount(players, id) == Cardinality({i \in 1..Len(players) : players[i].votedFor = id})

\* for (const [id, count] of Object.entries(votes)), from entry k on
RECURSIVE TallyLoop(_, _, _, _)
TallyLoop(players, keys, k, acc) ==
  IF k > Len(keys) THEN acc
  ELSE LET count == VoteCount(players, keys[k])
       IN  TallyLoop(players, keys, k + 1,
             IF count > acc.maxVotes
             THEN [maxVotes |-> count, suspectedId |-> keys[k], tie |-> FALSE]
             ELSE IF count = acc.maxVotes THEN [acc EXCEPT !.tie = TRUE]
             ELSE acc)

Tally(players) ==
  TallyLoop(players, VoteKeys(players, Len(players)), 1,
            [maxVotes |-> 0, suspectedId |-> NoId, tie |-> FALSE])

\* lobby.players.find(p => p.role === "killer")?.id
KillerId(players) ==
  LET k == FindIndex(players, LAMBDA p : p.role = "killer")
  IN  IF k = 0 THEN NoId ELSE players[k].id

\* a tally gone wrong: the first id to reach the most votes is accused, tie or not
ResolveIgnoringTie(lobby) ==
  IF Tally(lobby.players).suspectedId # KillerId(lobby.players)
  THEN [lobby EXCEPT !.winner = "killer", !.status = "game_over"]
  ELSE [lobby EXCEPT !.status = "witness_guessing"]

\* the lobby after the tally of a complete vote
Resolve(lobby) ==
  LET t == Tally(lobby.players)
  IN  IF t.tie \/ t.suspectedId # KillerId(lobby.players)
      THEN [lobby EXCEPT !.winner = "killer", !.status = "game_over"]
      ELSE [lobby EXCEPT !.status = "witness_guessing"]

\* socket.on("vote")
Vote(s, lobbyId, targetPlayerId) ==
  /\ s \in conn
  /\ IF InPhase(lobbyId, "voting") /\ IsPlayer(lobbies[lobbyId], s)
     THEN LET lobby == lobbies[lobbyId]
              voted == [lobby EXCEPT !.players[PlayerIndex(lobby, s)].votedFor = targetPlayerId]
          IN  IF AllVoted(voted.players)
              THEN /\ lobbies' = Put(lobbyId, Resolve(voted))
                   /\ out' = <<ToRoom("lobby_update", lobbyId), ToRoom("lobby_update", lobbyId)>>
              ELSE /\ lobbies' = Put(lobbyId, voted)
                   /\ out' = <<ToRoom("lobby_update", lobbyId)>>
     ELSE /\ out' = <<>>
          /\ UNCHANGED lobbies
  /\ UNCHANGED <<conn, rooms, timers, uuid>>

\* a test gone wrong: any player named counts as the witness
NamesPlayer(lobby, targetPlayerId) == IsPlayer(lobby, targetPlayerId)

\* target?.role === "witness"
NamesWitness(lobby, targetPlayerId) ==
  /\ IsPlayer(lobby, targetPlayerId)
  /\ lobby.players[PlayerIndex(lobby, targetPlayerId)].role = "witness"

\* socket.on("guess_witness")
GuessWitness(s, lobbyId, targetPlayerId) ==
  /\ s \in conn
  /\ IF /\ InPhase(lobbyId, "witness_guessing")
        /\ IsPlayer(lobbies[lobbyId], s)
        /\ lobbies[lobbyId].players[PlayerIndex(lobbies[lobbyId], s)].role = "killer"
     THEN LET lobby == lobbies[lobbyId]
              hit == NamesWitness(lobby, targetPlayerId)
          IN  /\ lobbies' = Put(lobbyId,
                   [lobby EXCEPT !.winner = IF hit THEN "killer" ELSE "investigators",
                                 !.status = "game_over"])
              /\ out' = <<ToRoom("lobby_update", lobbyId)>>
     ELSE /\ out' = <<>>
          /\ UNCHANGED lobbies
  /\ UNCHANGED <<conn, rooms, timers, uuid>>

\* socket.on("start_voting")
StartVoting(s, lobbyId) ==
  /\ s \in conn
  /\ IF InPhase(lobbyId, "discussion") /\ IsHost(lobbyId, s)
     THEN /\ lobbies' = Put(lobbyId, [lobbies[lobbyId] EXCEPT !.status = "voting"])
          /\ out' = <<ToRoom("lobby_update", lobbyId)>>
     ELSE /\ out' = <<>>
          /\ UNCHANGED lobbies
  /\ UNCHANGED <<conn, rooms, timers, uuid>>

\* whether the disconnect handler takes the socket's entry out of this lobby
Dropped(lobby, s) == IsPlayer(lobby, s) /\ lobby.status = "lobby"

\* one turn of the disconnect handler's loop: the lobby it leaves behind
AfterDisconnect(lobby, s) ==
  IF Dropped(lobby, s)
  THEN [lobby EXCEPT !.players = PromoteFirst(Splice(lobby.players, PlayerIndex(lobby, s)))]
  ELSE lobby

\* a loop gone wrong: no lobby is deleted
EmptiedNever(lobby, s) == FALSE

\* whether the loop deletes the lobby
Emptied(lobby, s) == Dropped(lobby, s) /\ Len(lobby.players) = 1

\* the lobby_update emissions of the loop, for the codes from c on
RECURSIVE DisconnectOut(_, _)
DisconnectOut(s, c) ==
  IF c > NumCodes THEN <<>>
  ELSE (IF Exists(c) /\ Dropped(lobbies[c], s) /\ ~Emptied(lobbies[c], s)
        THEN <<ToRoom("lobby_update", c)>> ELSE <<>>) \o DisconnectOut(s, c + 1)

\* socket.on("disconnect"); socket.io takes the closed socket out of its rooms
Disconnect(s) ==
  /\ s \in conn
  /\ conn' = conn \ {s}
  /\ rooms' = [c \in Codes |-> rooms[c] \ {s}]
  /\ lobbies' = [c \in {d \in DOMAIN lobbies : ~Emptied(lobbies[d], s)} |->
                   AfterDisconnect(lobbies[c], s)]
  /\ out' = DisconnectOut(s, 1)
  /\ UNCHANGED <<timers, uuid>>

----------------------------------------------------------------------------
(* The server: any connected client sends any event, and pending timers fire *)

Create ==
  \E s \in Sockets, c \in Codes, n \in Names : \E a \in Profiles(s) : CreateLobby(s, c, n, a)
Join ==
  \E s \in Sockets, c \in Codes, n \in Names, x \in JoinXs, y \in JoinXs : \E a \in Profiles(s) :
    JoinLobby(s, c, n, a, x, y)
Leave == \E s \in Sockets, c \in Codes : LeaveLobby(s, c)
Start ==
  \E s \in Sockets, c \in Codes, xy \in TaskXYs, ty \in TaskTypes, now \in Times :
    \E js \in StartDraws(c) : StartGame(s, c, js, xy, ty, now)
Moves == \E s \in Sockets, c \in Codes, xy \in MoveXYs : Move(s, c, xy[1], xy[2])
Completes ==
  \E s \in Sockets, c \in Codes, r \in 0..(NumSockets - 1) :
    \E t \in TaskIds(c) : TaskCompleted(s, c, t, r)
Locks == \E s \in Sockets, c \in Codes : \E t \in TaskIds(c) : LockTask(s, c, t)
Steals ==
  \E s \in Sockets, c \in Codes, target \in Sockets, r \in 0..(NumSockets - 1) :
    \E pick \in 0..(IF Exists(c) THEN Len(lobbies[c].clues) ELSE 0) :
      StealClue(s, c, target, pick, r)
Votes == \E s \in Sockets, c \in Codes, target \in Sockets : Vote(s, c, target)
Guesses == \E s \in Sockets, c \in Codes, target \in Sockets : GuessWitness(s, c, target)
Opens == \E s \in Sockets, c \in Codes : StartVoting(s, c)
Closes == \E s \in Sockets : Disconnect(s)

Next ==
  \/ Create \/ Join \/ Leave \/ Start \/ TimerFire \/ Moves \/ Completes \/ Locks
  \/ Steals \/ Votes \/ Guesses \/ Opens \/ Closes

Spec == Init /\ [][Next]_vars

----------------------------------------------------------------------------
(* The lobby phase and the clock: clients create, join, leave, drop and start games, and
   timers fire; no client plays or votes. *)

\* the state after the last client has dropped again
InitLobby ==
  /\ lobbies = <<>>
  /\ rooms = [c \in Codes |-> {}]
  /\ conn = Sockets \ {NumSockets}
  /\ timers = <<>>
  /\ uuid = 0
  /\ out = <<>>

\* join_lobby from a client that is not in the lobby it names
JoinNew ==
  \E s \in Sockets, c \in Codes, n \in Names, x \in JoinXs, y \in JoinXs : \E a \in Profiles(s) :
    /\ ~(Exists(c) /\ IsPlayer(lobbies[c], s))
    /\ JoinLobby(s, c, n, a, x, y)

NextLobby == Create \/ JoinNew \/ Leave \/ Start \/ TimerFire

SpecLobby == InitLobby /\ [][NextLobby]_vars

----------------------------------------------------------------------------
(* Scenes: the lobby of n clients that joined in order, as it stands when a phase begins.
   Every scene is a state the server reaches from Init by create_lobby, join_lobby,
   start_game and the timer. *)

TheCode == 1

\* the lobby after client 1 created it and clients 2..n joined
RECURSIVE Gathered(_)
Gathered(n) ==
  IF n = 1 THEN NewLobby(TheCode, 1, Alex, <<"attributes", 1>>)
  ELSE Joined(Gathered(n - 1), n, Alex, <<"attributes", n>>, 1000, 1000)

\* the n clients have gathered and the host has not started the game
SceneLobby(n) ==
  /\ lobbies = (TheCode :> Gathered(n))
  /\ rooms = [c \in Codes |-> IF c = TheCode THEN 1..n ELSE {}]
  /\ conn = Sockets
  /\ timers = <<>>
  /\ uuid = 0
  /\ out = <<Callback(n, "ok"), ToRoom("lobby_update", TheCode)>>

\* the host has just started the game with the shuffle draws js
ScenePlaying(n, js) ==
  /\ lobbies = (TheCode :> Started(Gathered(n), js, 0, <<200, 200>>, "word_fuse", 7))
  /\ rooms = [c \in Codes |-> IF c = TheCode THEN 1..n ELSE {}]
  /\ conn = Sockets
  /\ timers = <<TheCode>>
  /\ uuid = NumTasks
  /\ out = <<ToRoom("game_started", TheCode)>>

\* the timer of that game has just fired; client `gone` (0: nobody) left while it ran
SceneDiscussion(n, js, gone) ==
  /\ lobbies = (TheCode :> [Started(Gathered(n), js, 0, <<200, 200>>, "word_fuse", 7)
                              EXCEPT !.status = "discussion",
                                     !.players = IF gone = 0 THEN @ ELSE Splice(@, gone)])
  /\ rooms = [c \in Codes |-> IF c = TheCode THEN (1..n) \ {gone} ELSE {}]
  /\ conn = Sockets
  /\ timers = <<>>
  /\ uuid = NumTasks
  /\ out = <<ToRoom("lobby_update", TheCode)>>

Draws(n) == ShuffleDraws(Len(RolePool(n)))

----------------------------------------------------------------------------
(* Role assignment: lobbies of every size at the moment the host starts them. *)

InitRoles == \E n \in 1..NumSockets : SceneLobby(n)

NextRoles == Start \/ TimerFire

SpecRoles == InitRoles /\ [][NextRoles]_vars

----------------------------------------------------------------------------
(* The vote: games of three and more players from the discussion on, with at most one
   player gone before it. The host opens the vote, players vote and the killer guesses;
   nobody leaves, starts or creates a game. *)

InitVote ==
  \E n \in MinPlayers..NumSockets : \E js \in Draws(n), gone \in 0..n :
    SceneDiscussion(n, js, gone)

NextVote == Opens \/ Votes \/ Guesses

SpecVote == InitVote /\ [][NextVote]_vars

----------------------------------------------------------------------------
(* The ballot of a three-player game, where players also leave. *)

InitBallot == \E js \in Draws(MinPlayers) : SceneDiscussion(MinPlayers, js, 0)

NextBallot == Opens \/ Votes \/ Guesses \/ Leave

SpecBallot == InitBallot /\ [][NextBallot]_vars

----------------------------------------------------------------------------
(* The phases: a three-player game in each phase, with a fourth client connected that is
   no player. Clients send the six phase-bound events in every phase; nobody leaves and no
   timer fires. *)

InitPhases ==
  \/ SceneLobby(MinPlayers)
  \/ \E js \in Draws(MinPlayers) : ScenePlaying(MinPlayers, js)
  \/ \E js \in Draws(MinPlayers) : SceneDiscussion(MinPlayers, js, 0)

NextPhases == Moves \/ Completes \/ Locks \/ Opens \/ Votes \/ Guesses

SpecPhases == InitPhases /\ [][NextPhases]_vars

----------------------------------------------------------------------------
(* The game: a three-player game from its start, with a fourth client connected that is no
   player. Clients complete the first task and players leave; the timer has not fired. *)

InitPlay == \E js \in Draws(MinPlayers) : ScenePlaying(MinPlayers, js)

NextPlay == Completes \/ Leave

SpecPlay == InitPlay /\ [][NextPlay]_vars

----------------------------------------------------------------------------
(* The steal: the same game, where clients complete the first tasks and send steal_clue;
   nobody leaves. *)

CompletesSome ==
  \E s \in Sockets, c \in Codes, r \in 0..(NumSockets - 1) :
    \E t \in TaskIdsUpTo(c, PlayTasks) : TaskCompleted(s, c, t, r)

NextSteal == CompletesSome \/ Steals

SpecSteal == InitPlay /\ [][NextSteal]_vars

----------------------------------------------------------------------------
(* The restart: the same game, where clients send steal_clue and start_game. *)

NextRestart == Steals \/ Start

SpecRestart == InitPlay /\ [][NextRestart]_vars

----------------------------------------------------------------------------
(* The thief: a three-player lobby before and after its start; clients send steal_clue in
   every phase and the timer of the game fires. *)

InitThief ==
  \/ SceneLobby(MinPlayers)
  \/ \E js \in Draws(MinPlayers) : ScenePlaying(MinPlayers, js)

NextThief == Steals \/ TimerFire

SpecThief == InitThief /\ [][NextThief]_vars

----------------------------------------------------------------------------
(* The gathering: three clients create lobbies, join them, also when they are in already,
   leave and drop; no game is started. *)

NextGather == Create \/ Join \/ Leave \/ Closes

SpecGather == InitLobby /\ [][NextGather]_vars

----------------------------------------------------------------------------
(* The drop: a three-player lobby in each phase; clients drop their connection while the
   host opens the vote, players vote and the killer guesses. *)

NextDrop == Closes \/ Opens \/ Votes \/ Guesses

SpecDrop == InitPhases /\ [][NextDrop]_vars

----------------------------------------------------------------------------
(* The rematch: a three-player game from the discussion to its end, where the host also
   sends start_game. *)

NextRematch == Opens \/ Votes \/ Guesses \/ Start

SpecRematch == InitBallot /\ [][NextRematch]_vars

----------------------------------------------------------------------------
(* The clues: a three-player game in play, where clients complete the first tasks and send steal_clue
   while the game runs and after its timer has fired. *)

NextClues == CompletesSome \/ Steals \/ TimerFire

SpecClues == InitPlay /\ [][NextClues]_vars

----------------------------------------------------------------------------
(* The client of App.tsx: the lobby a client holds is <<>> (null) or <<lobby>>. *)

\* the listeners of the client: what it holds after the message, whose payload the server
\* has serialised from `lobby`
Received(prev, ev, lobby) ==
  IF ev \in {"lobby_update", "game_started"} THEN <<lobby>>
  ELSE IF ev = "clue_found"
       THEN IF prev = <<>> THEN <<>> ELSE <<[prev[1] EXCEPT !.clues = lobby.clues]>>
  ELSE IF ev = "task_update"
       THEN IF prev = <<>> THEN <<>> ELSE <<[prev[1] EXCEPT !.tasks = lobby.tasks]>>
  ELSE IF ev = "left_lobby" THEN <<>>
  ELSE prev

\* the message reaches the client m, a member of `members` of the room
Reaches(msg, m, room, members) ==
  \/ msg.room = room /\ m \in members /\ msg.sock # m
  \/ msg.room = NoId /\ msg.sock = m

\* the messages of a handler, delivered in order to the client m
RECURSIVE Replay(_, _, _, _, _, _)
Replay(prev, msgs, m, room, members, lobby) ==
  IF msgs = <<>> THEN prev
  ELSE Replay(IF Reaches(Head(msgs), m, room, members)
              THEN Received(prev, Head(msgs).ev, lobby) ELSE prev,
              Tail(msgs), m, room, members, lobby)

----------------------------------------------------------------------------
(* The clock: three clients have gathered; the host starts the game, and while it runs
   clients leave, disconnect, complete a task and steal. Node runs every callback that
   setTimeout has scheduled, so a pending timer fires in the end. *)

InitClock == SceneLobby(MinPlayers)

\* no lobby holds MaxClues clues yet
ClueRoom == \A c \in DOMAIN lobbies : Len(lobbies[c].clues) < MaxClues

CompletesEarly == ClueRoom /\ Completes
StealsEarly == ClueRoom /\ Steals

NextClock == Start \/ Leave \/ Closes \/ CompletesEarly \/ StealsEarly \/ TimerFire

SpecClock == InitClock /\ [][NextClock]_vars /\ WF_vars(TimerFire)

----------------------------------------------------------------------------
(* The tasks: a three-player game in play, where clients complete and lock the first task
   and the host starts the game again. *)

NextTasks == Locks \/ Completes \/ Start

SpecTasks == InitPlay /\ [][NextTasks]_vars

----------------------------------------------------------------------------
(* The walk: a three-player game in each phase, with a fourth client connected that is no
   player. Clients report positions and leave, and the host opens the vote. *)

NextWalk == Moves \/ Leave \/ Opens

SpecWalk == InitPhases /\ [][NextWalk]_vars

----------------------------------------------------------------------------
(* Properties *)

\* the status of the lobby the code names, "none" where there is no such lobby
Status(c) == IF c \in DOMAIN lobbies THEN lobbies[c].status ELSE "none"

\* the lobby c exists before and after the step, and the step did not create it anew
Kept(c) ==
  /\ c \in DOMAIN lobbies
  /\ c \in DOMAIN lobbies'
  /\ ~(\E s \in Sockets, n \in Names : \E a \in Profiles(s) : CreateLobby(s, c, n, a))

\* how many players of the list hold the role
RoleCount(players, role) == Cardinality({i \in 1..Len(players) : players[i].role = role})

LegalChanges ==
  {<<"lobby", "playing">>, <<"playing", "discussion">>, <<"discussion", "voting">>,
   <<"voting", "witness_guessing">>, <<"voting", "game_over">>,
   <<"witness_guessing", "game_over">>}

\* C1: a lobby's status changes only along lobby -> playing -> discussion -> voting ->
\* witness_guessing | game_over and witness_guessing -> game_over; no step takes a lobby
\* back to playing, and game_over is never left.
C1_OnlyLegalStatusChanges ==
  [][\A c \in Codes :
       Kept(c) /\ lobbies'[c].status # lobbies[c].status
         => <<lobbies[c].status, lobbies'[c].status>> \in LegalChanges]_vars

\* C2: once a lobby has left status lobby, exactly one of its players is the killer and at
\* most one is the witness.
C2_OneKillerAtMostOneWitness ==
  \A c \in DOMAIN lobbies :
    lobbies[c].status # "lobby"
      => /\ RoleCount(lobbies[c].players, "killer") = 1
         /\ RoleCount(lobbies[c].players, "witness") <= 1

\* the step is an accepted start_game on c
StartedNow(c) == out' = <<ToRoom("game_started", c)>>

\* C3: right after a successful start_game on n >= 3 players the roles are one killer, one
\* witness, one forensics iff n >= 4, investigators on every other seat and no null, and
\* the status is playing in that same state.
C3_RolesAtStart ==
  [][\A c \in Codes :
       StartedNow(c) =>
         LET ps == lobbies'[c].players
             n == Len(ps)
             forensics == IF n >= 4 THEN 1 ELSE 0
         IN  /\ lobbies'[c].status = "playing"
             /\ n >= 3
             /\ n = Len(lobbies[c].players)
             /\ \A i \in 1..n : ps[i].id = lobbies[c].players[i].id
             /\ RoleCount(ps, "killer") = 1
             /\ RoleCount(ps, "witness") = 1
             /\ RoleCount(ps, "forensics") = forensics
             /\ RoleCount(ps, "investigator") = n - 2 - forensics
             /\ RoleCount(ps, Null) = 0]_vars

\* a game of four has just started: killer, witness, forensics and one investigator
C3_Witness ==
  \E c \in DOMAIN lobbies :
    /\ out = <<ToRoom("game_started", c)>>
    /\ Len(lobbies[c].players) = 4
    /\ RoleCount(lobbies[c].players, "forensics") = 1

\* the votes the players of the list gave the id
Ballots(players, id) == Cardinality({i \in 1..Len(players) : players[i].votedFor = id})

\* one id has strictly more votes than every other id, and it is the killer's
KillerAccused(players) ==
  \E id \in Sockets :
    /\ \A other \in Sockets \ {id} : Ballots(players, id) > Ballots(players, other)
    /\ \E i \in 1..Len(players) : players[i].role = "killer" /\ players[i].id = id

\* the step is a vote of a player of c, in voting, after which every player has voted
LastVote(c) ==
  /\ Status(c) = "voting"
  /\ \A i \in 1..Len(lobbies'[c].players) : lobbies'[c].players[i].votedFor # NoId
  /\ \E s \in Sockets, target \in Sockets : IsPlayer(lobbies[c], s) /\ Vote(s, c, target)

\* C4: the vote that completes the ballot leads to witness_guessing iff one id has strictly
\* the most votes and it is the killer's; every other outcome is game_over, winner killer.
C4_VoteResolution ==
  [][\A c \in Codes :
       LastVote(c) =>
         IF KillerAccused(lobbies'[c].players)
         THEN lobbies'[c].status = "witness_guessing" /\ lobbies'[c].winner = Null
         ELSE lobbies'[c].status = "game_over" /\ lobbies'[c].winner = "killer"]_vars

\* four players voted 2-1-1 (or 3-1) and the killer, who got the most, now guesses
C4_Witness ==
  \E c \in DOMAIN lobbies :
    /\ lobbies[c].status = "witness_guessing"
    /\ Len(lobbies[c].players) = 4
    /\ \A i \in 1..4 : lobbies[c].players[i].votedFor # NoId
    /\ \E i, j \in 1..4 : lobbies[c].players[i].votedFor # lobbies[c].players[j].votedFor

\* C5: a lobby in voting always has a player whose vote is still missing.
C5_VotingMissesAVote ==
  \A c \in DOMAIN lobbies :
    lobbies[c].status = "voting"
      => \E i \in 1..Len(lobbies[c].players) : lobbies[c].players[i].votedFor = NoId

\* C6: a vote once recorded is never changed to another target nor cleared.
C6_NoRevote ==
  [][\A c \in Codes :
       Kept(c) =>
         \A i \in 1..Len(lobbies[c].players), j \in 1..Len(lobbies'[c].players) :
           (/\ lobbies[c].players[i].id = lobbies'[c].players[j].id
            /\ lobbies[c].players[i].votedFor # NoId)
             => lobbies'[c].players[j].votedFor = lobbies[c].players[i].votedFor]_vars

\* the caller is no host player of the lobby, or the lobby is unknown or has under 3 players
StartRefused(s, c) ==
  \/ c \notin DOMAIN lobbies
  \/ Len(lobbies[c].players) < 3
  \/ ~\E i \in 1..Len(lobbies[c].players) :
        lobbies[c].players[i].id = s /\ lobbies[c].players[i].isHost

\* C7: a start_game from a caller who is no host of the lobby, on a lobby of fewer than 3
\* players or on an unknown code changes no lobby, schedules no timer and emits nothing.
C7_RefusedStartChangesNothing ==
  [][\A s \in Sockets, c \in Codes :
       (/\ StartRefused(s, c)
        /\ \E xy \in TaskXYs, ty \in TaskTypes, now \in Times :
             \E js \in StartDraws(c) : StartGame(s, c, js, xy, ty, now))
         => lobbies' = lobbies /\ timers' = timers /\ uuid' = uuid /\ out' = <<>>]_vars

\* three clients sit in a lobby that was never started and the last event emitted nothing:
\* with every client a player and no timer ever set, that event was a refused start_game
C7_Witness ==
  \E c \in DOMAIN lobbies :
    /\ lobbies[c].status = "lobby"
    /\ Len(lobbies[c].players) = 3
    /\ lobbies[c].tasks = <<>>
    /\ timers = <<>>
    /\ uuid = 0
    /\ out = <<>>

TaskIdSet(lobby) == {lobby.tasks[k].id : k \in 1..Len(lobby.tasks)}

\* C8: tasks are generated once: none while in lobby, 15 fresh ones right after start_game,
\* and from then on the set of task ids of the lobby never changes.
C8_TasksGeneratedOnce ==
  [][\A c \in Codes :
       /\ (c \in DOMAIN lobbies /\ lobbies[c].status = "lobby") => lobbies[c].tasks = <<>>
       /\ StartedNow(c) =>
            /\ Len(lobbies'[c].tasks) = 15
            /\ \A k \in 1..15 : /\ ~lobbies'[c].tasks[k].completed
                                /\ lobbies'[c].tasks[k].lockedFor = <<>>
       /\ (Kept(c) /\ lobbies[c].status # "lobby")
            => TaskIdSet(lobbies'[c]) = TaskIdSet(lobbies[c])]_vars

\* the step is one of the six phase-bound events, sent by s for c outside its phase
OutOfPhase(s, c) ==
  \/ /\ Status(c) # "playing"
     /\ \/ \E xy \in MoveXYs : Move(s, c, xy[1], xy[2])
        \/ \E t \in TaskIds(c), r \in 0..(NumSockets - 1) : TaskCompleted(s, c, t, r)
        \/ \E t \in TaskIds(c) : LockTask(s, c, t)
  \/ /\ Status(c) # "voting"
     /\ \E target \in Sockets : Vote(s, c, target)
  \/ /\ Status(c) # "witness_guessing"
     /\ \E target \in Sockets : GuessWitness(s, c, target)
  \/ /\ Status(c) # "discussion"
     /\ StartVoting(s, c)

\* C9: move, task_completed and lock_task outside playing, vote outside voting,
\* guess_witness outside witness_guessing and start_voting outside discussion change no
\* lobby and emit nothing.
C9_OutOfPhaseIsNoOp ==
  [][\A s \in Sockets, c \in Codes :
       OutOfPhase(s, c) => lobbies' = lobbies /\ out' = <<>>]_vars

\* a lobby that was never started and an event that emitted nothing: among the six events
\* clients send here, each is out of phase in status lobby
C9_Witness ==
  \E c \in DOMAIN lobbies :
    /\ lobbies[c].status = "lobby"
    /\ Len(lobbies[c].players) = 3
    /\ out = <<>>

\* the step is an event other than join_lobby and create_lobby that s sent for c
SentFor(s, c) ==
  \/ LeaveLobby(s, c)
  \/ \E xy \in TaskXYs, ty \in TaskTypes, now \in Times :
       \E js \in StartDraws(c) : StartGame(s, c, js, xy, ty, now)
  \/ \E xy \in MoveXYs : Move(s, c, xy[1], xy[2])
  \/ \E t \in TaskIds(c), r \in 0..(NumSockets - 1) : TaskCompleted(s, c, t, r)
  \/ \E t \in TaskIds(c) : LockTask(s, c, t)
  \/ \E target \in Sockets, r \in 0..(NumSockets - 1) :
       \E pick \in 0..(IF Exists(c) THEN Len(lobbies[c].clues) ELSE 0) :
         StealClue(s, c, target, pick, r)
  \/ \E target \in Sockets : Vote(s, c, target)
  \/ \E target \in Sockets : GuessWitness(s, c, target)
  \/ StartVoting(s, c)

\* C10: an event other than join_lobby from a connection that is no player of the lobby it
\* names changes no field of that lobby.
C10_StrangersChangeNothing ==
  [][\A s \in Sockets, c \in Codes :
       (/\ c \in DOMAIN lobbies
        /\ ~\E i \in 1..Len(lobbies[c].players) : lobbies[c].players[i].id = s
        /\ SentFor(s, c))
         => c \in DOMAIN lobbies' /\ lobbies'[c] = lobbies[c]]_vars

\* the step is a task_completed from a player of c for the k-th task of c, during playing
CompletedBy(s, c, k) ==
  /\ Status(c) = "playing"
  /\ \E i \in 1..Len(lobbies[c].players) : lobbies[c].players[i].id = s
  /\ k \in 1..Len(lobbies[c].tasks)
  /\ \E r \in 0..(NumSockets - 1) : TaskCompleted(s, c, lobbies[c].tasks[k].id, r)

\* C11: a task_completed from a player leaves the task completed and appends one clue if
\* the task was not completed before and none if it was; and a completed task stays
\* completed through every event, so a second task_completed for it adds no clue.
C11_CompleteTaskIdempotent ==
  [][\A c \in Codes :
       /\ \A s \in Sockets, k \in 1..NumTasks :
            CompletedBy(s, c, k) =>
              /\ lobbies'[c].tasks[k].completed
              /\ Len(lobbies'[c].clues) =
                   Len(lobbies[c].clues) + (IF lobbies[c].tasks[k].completed THEN 0 ELSE 1)
       /\ Kept(c) =>
            \A k \in 1..Len(lobbies[c].tasks), j \in 1..Len(lobbies'[c].tasks) :
              (lobbies[c].tasks[k].id = lobbies'[c].tasks[j].id /\ lobbies[c].tasks[k].completed)
                => lobbies'[c].tasks[j].completed]_vars

\* the first task is completed, its one clue is there, and the last event emitted nothing,
\* as a second task_completed for that task does
C11_Witness ==
  \E c \in DOMAIN lobbies :
    /\ lobbies[c].status = "playing"
    /\ Len(lobbies[c].players) = 3
    /\ lobbies[c].tasks[1].completed
    /\ Len(lobbies[c].clues) = 1
    /\ out = <<>>

\* the step is a task_completed from player s of c that appends a clue
ClueFoundBy(s, c) ==
  /\ Status(c) = "playing"
  /\ out' = <<ToRoom("task_update", c), ToRoom("clue_found", c)>>
  /\ \E i \in 1..Len(lobbies[c].players) : lobbies[c].players[i].id = s
  /\ \E k \in 1..Len(lobbies[c].tasks), r \in 0..(NumSockets - 1) :
       /\ ~lobbies[c].tasks[k].completed
       /\ TaskCompleted(s, c, lobbies[c].tasks[k].id, r)

\* the text is derived from the attributes of a player of the list who is, or is not, the killer
Describes(text, players, killer) ==
  \E i \in 1..Len(players) :
    /\ (players[i].role = "killer") = killer
    /\ text = ClueText(players[i].attributes)

\* C12: the clue a non-killer's task_completed appends is not tampered and describes the
\* player who holds role killer; the clue the killer's task_completed appends is tampered
\* and describes a player who is not the killer.
C12_CluesTruthfulAtCreation ==
  [][\A s \in Sockets, c \in Codes :
       ClueFoundBy(s, c) =>
         LET players == lobbies[c].players
             finder == players[CHOOSE i \in 1..Len(players) : players[i].id = s]
             clue == lobbies'[c].clues[Len(lobbies'[c].clues)]
         IN  /\ Len(lobbies'[c].clues) = Len(lobbies[c].clues) + 1
             /\ clue.foundBy = s
             /\ clue.isTampered = (finder.role = "killer")
             /\ Describes(clue.text, players, finder.role # "killer")]_vars

\* the step is a steal_clue that s sent for c
StealSent(s, c) ==
  \E target \in Sockets, r \in 0..(NumSockets - 1) :
    \E pick \in 0..(IF Exists(c) THEN Len(lobbies[c].clues) ELSE 0) :
      StealClue(s, c, target, pick, r)

\* C13: hasStolenClue never goes from true back to false, and a steal_clue during playing
\* from a player whose hasStolenClue is true answers "Already used steal ability", changes
\* no lobby and broadcasts nothing.
C13_StealOneShot ==
  [][\A c \in Codes :
       /\ Kept(c) =>
            \A i \in 1..Len(lobbies[c].players), j \in 1..Len(lobbies'[c].players) :
              (/\ lobbies[c].players[i].id = lobbies'[c].players[j].id
               /\ lobbies[c].players[i].hasStolenClue)
                => lobbies'[c].players[j].hasStolenClue
       /\ \A s \in Sockets :
            (/\ Status(c) = "playing"
             /\ \E i \in 1..Len(lobbies[c].players) :
                  lobbies[c].players[i].id = s /\ lobbies[c].players[i].hasStolenClue
             /\ StealSent(s, c))
              => /\ lobbies' = lobbies
                 /\ out' = <<Callback(s, "Already used steal ability")>>]_vars

\* the error a steal_clue from s for c on the target is due, "ok" if none
StealRefusal(s, c, target) ==
  IF Status(c) # "playing" THEN "Game not active"
  ELSE IF ~\E i \in 1..Len(lobbies[c].players) :
             lobbies[c].players[i].id = s /\ lobbies[c].players[i].role = "killer"
       THEN "Only the killer can do this"
  ELSE IF \E i \in 1..Len(lobbies[c].players) :
             lobbies[c].players[i].id = s /\ lobbies[c].players[i].hasStolenClue
       THEN "Already used steal ability"
  ELSE IF ~\E i \in 1..Len(lobbies[c].players) : lobbies[c].players[i].id = target
       THEN "Target not found"
  ELSE "ok"

\* C14: a steal_clue that fails answers its caller with one error, the first that applies
\* of: game not active, caller not the killer, ability already used, target not found; it
\* changes no lobby and broadcasts nothing.
C14_StealErrorsInOrder ==
  [][\A s \in Sockets, c \in Codes, target \in Sockets :
       (/\ StealRefusal(s, c, target) # "ok"
        /\ \E r \in 0..(NumSockets - 1) :
             \E pick \in 0..(IF Exists(c) THEN Len(lobbies[c].clues) ELSE 0) :
               StealClue(s, c, target, pick, r))
         => /\ lobbies' = lobbies
            /\ out' = <<Callback(s, StealRefusal(s, c, target))>>]_vars

\* the killer, who has stolen before, has just been refused
C14_Witness ==
  \E c \in DOMAIN lobbies, i \in 1..3 :
    /\ lobbies[c].status = "playing"
    /\ Len(lobbies[c].players) = 3
    /\ lobbies[c].players[i].hasStolenClue
    /\ out = <<Callback(lobbies[c].players[i].id, "Already used steal ability")>>

\* the step is a steal_clue from s for c on the target that succeeds
StoleFrom(s, c, target) ==
  /\ out' # <<>>
  /\ out'[1] = ToRoom("clue_found", c)
  /\ StealRefusal(s, c, target) = "ok"
  /\ \E r \in 0..(NumSockets - 1) :
       \E pick \in 0..(IF Exists(c) THEN Len(lobbies[c].clues) ELSE 0) :
         StealClue(s, c, target, pick, r)

\* C15: a successful steal_clue on a target flips isTampered on exactly one clue the target
\* found that was not tampered, and keeps the number of clues, if there is such a clue;
\* otherwise it appends one clue found by the target and tampered. Either way the caller's
\* hasStolenClue becomes true, and no other field of a player and no task changes.
C15_StealTampersOrPlants ==
  [][\A s \in Sockets, c \in Codes, target \in Sockets :
       StoleFrom(s, c, target) =>
         LET before == lobbies[c].clues
             after == lobbies'[c].clues
             honest == {k \in 1..Len(before) :
                          before[k].foundBy = target /\ ~before[k].isTampered}
             players == lobbies[c].players
             thief == CHOOSE i \in 1..Len(players) : players[i].id = s
         IN  /\ IF honest # {}
                THEN \E k \in honest : after = [before EXCEPT ![k].isTampered = TRUE]
                ELSE /\ Len(after) = Len(before) + 1
                     /\ SubSeq(after, 1, Len(before)) = before
                     /\ after[Len(after)].foundBy = target
                     /\ after[Len(after)].isTampered
             /\ lobbies'[c].players = [players EXCEPT ![thief].hasStolenClue = TRUE]
             /\ lobbies'[c].tasks = lobbies[c].tasks
             /\ lobbies'[c].status = lobbies[c].status]_vars

\* a player found two clues and the killer has just tampered one of them
C15_Witness ==
  \E c \in DOMAIN lobbies :
    /\ Len(lobbies[c].clues) = 2
    /\ lobbies[c].clues[1].foundBy = lobbies[c].clues[2].foundBy
    /\ lobbies[c].clues[1].isTampered # lobbies[c].clues[2].isTampered
    /\ \E i \in 1..Len(lobbies[c].players) :
         /\ lobbies[c].players[i].hasStolenClue
         /\ lobbies[c].players[i].id # lobbies[c].clues[1].foundBy
         /\ out = <<ToRoom("clue_found", c), ToRoom("lobby_update", c),
                    Callback(lobbies[c].players[i].id, "tampered")>>

\* the error a join_lobby for c is due, "ok" if none
JoinRefusal(c) ==
  IF c \notin DOMAIN lobbies THEN "Lobby not found"
  ELSE IF lobbies[c].status # "lobby" THEN "Game already in progress"
  ELSE "ok"

\* C16: join_lobby answers "Lobby not found" for an unknown code and "Game already in
\* progress" for a lobby whose status is not lobby, and then changes no lobby; and no event
\* adds a player to a lobby whose status is not lobby.
C16_JoinOnlyInLobby ==
  [][/\ \A s \in Sockets, c \in Codes :
          (/\ JoinRefusal(c) # "ok"
           /\ \E n \in Names, x \in JoinXs, y \in JoinXs :
                \E a \in Profiles(s) : JoinLobby(s, c, n, a, x, y))
            => lobbies' = lobbies /\ out' = <<Callback(s, JoinRefusal(c))>>
     /\ \A c \in Codes :
          (Kept(c) /\ lobbies[c].status # "lobby")
            => /\ Len(lobbies'[c].players) <= Len(lobbies[c].players)
               /\ \A j \in 1..Len(lobbies'[c].players) :
                    \E i \in 1..Len(lobbies[c].players) :
                      lobbies[c].players[i].id = lobbies'[c].players[j].id]_vars

\* a client that left a running game has just been refused when it asked to join again
C16_Witness ==
  \E c \in DOMAIN lobbies, s \in Sockets :
    /\ lobbies[c].status = "playing"
    /\ Len(lobbies[c].players) = 2
    /\ out = <<Callback(s, "Game already in progress")>>

\* C17: no two entries of a lobby's player list have the same id.
C17_PlayerIdsUnique ==
  \A c \in DOMAIN lobbies :
    \A i, j \in 1..Len(lobbies[c].players) :
      lobbies[c].players[i].id = lobbies[c].players[j].id => i = j

\* the names the players of the list hold
NamesHeld(players) == {players[i].name : i \in 1..Len(players)}

\* the step is a join_lobby of s to c under the name n that is accepted
JoinedAs(s, c, n) ==
  /\ out' = <<Callback(s, "ok"), ToRoom("lobby_update", c)>>
  /\ JoinRefusal(c) = "ok"
  /\ \E x \in JoinXs, y \in JoinXs : \E a \in Profiles(s) : JoinLobby(s, c, n, a, x, y)

\* C18: the names of a lobby's players differ from each other; an accepted join stores the
\* name asked for if no player holds it, and otherwise that name followed by the smallest
\* k >= 1 that gives a name no player holds.
C18_NamesUnique ==
  [][/\ \A c \in DOMAIN lobbies' :
          \A i, j \in 1..Len(lobbies'[c].players) :
            lobbies'[c].players[i].name = lobbies'[c].players[j].name => i = j
     /\ \A s \in Sockets, c \in Codes, n \in Names :
          JoinedAs(s, c, n) =>
            LET held == NamesHeld(lobbies[c].players)
                len == Len(lobbies[c].players)
                stored == lobbies'[c].players[len + 1].name
            IN  /\ Len(lobbies'[c].players) = len + 1
                /\ IF n \notin held THEN stored = n
                   ELSE \E k \in 1..len :
                          /\ stored = Append(n, k)
                          /\ stored \notin held
                          /\ \A smaller \in 1..(k - 1) : Append(n, smaller) \in held]_vars

\* a third Alex has joined its namesakes: Alex, Alex 1 and Alex 2
C18_Witness ==
  \E c \in DOMAIN lobbies :
    /\ Len(lobbies[c].players) = 3
    /\ lobbies[c].players[1].name = Alex
    /\ lobbies[c].players[2].name = Append(Alex, 1)
    /\ lobbies[c].players[3].name = Append(Alex, 2)

\* C19: while a lobby's status is lobby, the player at index 0 is its host and no other
\* player is.
C19_FirstPlayerIsHost ==
  \A c \in DOMAIN lobbies :
    lobbies[c].status = "lobby"
      => /\ Len(lobbies[c].players) >= 1
         /\ \A i \in 1..Len(lobbies[c].players) : lobbies[c].players[i].isHost = (i = 1)

\* the creator of a lobby of three has just left, and the first to have joined is the host
C19_Witness ==
  \E c \in DOMAIN lobbies, s \in Sockets :
    /\ lobbies[c].status = "lobby"
    /\ Len(lobbies[c].players) = 2
    /\ lobbies[c].players[1].name = Append(Alex, 1)
    /\ lobbies[c].players[1].isHost
    /\ out = <<ToSocket("left_lobby", s), ToRoom("lobby_update", c)>>

\* the step is a leave_lobby of player s of c, whose status is not lobby
LeftMidGame(s, c) ==
  /\ Status(c) \notin {"none", "lobby"}
  /\ \E i \in 1..Len(lobbies[c].players) : lobbies[c].players[i].id = s
  /\ LeaveLobby(s, c)

\* C20: a leave_lobby in status playing or later changes no remaining player's isHost and
\* keeps the leaver's record in the lobby: the role, the vote and the clues attributed.
C20_LeaveKeepsRecord ==
  [][\A s \in Sockets, c \in Codes :
       LeftMidGame(s, c) =>
         /\ c \in DOMAIN lobbies'
         /\ lobbies'[c].clues = lobbies[c].clues
         /\ \A i \in 1..Len(lobbies[c].players) :
              \E j \in 1..Len(lobbies'[c].players) :
                /\ lobbies'[c].players[j].id = lobbies[c].players[i].id
                /\ lobbies'[c].players[j].isHost = lobbies[c].players[i].isHost
                /\ lobbies'[c].players[j].role = lobbies[c].players[i].role
                /\ lobbies'[c].players[j].votedFor = lobbies[c].players[i].votedFor]_vars

\* the step is the disconnect of s
Disconnected(s) ==
  /\ s \in conn
  /\ conn' = conn \ {s}
  /\ Disconnect(s)

\* the players of the list other than s, in order
Others(players, s) == SelectSeq(players, LAMBDA p : p.id # s)

\* C21: the disconnect of a player leaves a lobby whose status is not lobby unchanged and
\* broadcasts nothing to it; from a lobby in status lobby it removes the player, destroys
\* the lobby if no player remains and otherwise makes the player at index 0 the host.
C21_DisconnectFrame ==
  [][\A s \in Sockets :
       Disconnected(s) =>
         \A c \in DOMAIN lobbies :
           IF lobbies[c].status = "lobby" /\ Others(lobbies[c].players, s) # lobbies[c].players
           THEN IF Others(lobbies[c].players, s) = <<>>
                THEN c \notin DOMAIN lobbies'
                ELSE /\ c \in DOMAIN lobbies'
                     /\ lobbies'[c] =
                          [lobbies[c] EXCEPT
                             !.players = [Others(lobbies[c].players, s) EXCEPT ![1].isHost = TRUE]]
                     /\ out' # <<>>
           ELSE /\ c \in DOMAIN lobbies'
                /\ lobbies'[c] = lobbies[c]
                /\ \A k \in 1..Len(out') : out'[k].room # c]_vars

\* C22: every lobby in the registry has at least one player.
C22_NoEmptyLobby ==
  \A c \in DOMAIN lobbies : Len(lobbies[c].players) >= 1

\* the last player of the only lobby has just left, and the registry is empty again
C22_Witness ==
  /\ lobbies = <<>>
  /\ \E s \in Sockets : out = <<ToSocket("left_lobby", s)>>

\* the step is a create_lobby of s that was given the code c
Created(s, c) ==
  /\ out' = <<Callback(s, "ok"), ToRoom("lobby_update", c)>>
  /\ \E n \in Names : \E a \in Profiles(s) : CreateLobby(s, c, n, a)

\* C23: create_lobby takes a code that is not in use and keeps every lobby there was as it
\* is; the new lobby has status lobby, the creator as its one player, host, with no role,
\* no vote and the steal unused, and no clues, no tasks and no winner.
C23_CreateAllocatesFreshCode ==
  [][\A s \in Sockets, c \in Codes :
       Created(s, c) =>
         /\ c \notin DOMAIN lobbies
         /\ \A d \in DOMAIN lobbies : d \in DOMAIN lobbies' /\ lobbies'[d] = lobbies[d]
         /\ lobbies'[c].status = "lobby"
         /\ Len(lobbies'[c].players) = 1
         /\ lobbies'[c].players[1].id = s
         /\ lobbies'[c].players[1].isHost
         /\ lobbies'[c].players[1].role = Null
         /\ lobbies'[c].players[1].votedFor = NoId
         /\ ~lobbies'[c].players[1].hasStolenClue
         /\ lobbies'[c].clues = <<>>
         /\ lobbies'[c].tasks = <<>>
         /\ lobbies'[c].winner = Null]_vars

\* C24: a lobby has a winner if and only if its status is game_over, and a winner once set
\* never changes.
C24_WinnerIffGameOver ==
  [][\A c \in DOMAIN lobbies' :
       /\ (lobbies'[c].winner # Null) = (lobbies'[c].status = "game_over")
       /\ (Kept(c) /\ lobbies[c].winner # Null) => lobbies'[c].winner = lobbies[c].winner]_vars

\* C25: a guess_witness from the killer of a lobby in witness_guessing ends the game, for
\* the killer if the target is a player of the lobby with role witness and for the
\* investigators with any other target; any other guess_witness changes nothing.
C25_GuessResolves ==
  [][\A s \in Sockets, c \in Codes, target \in Sockets :
       GuessWitness(s, c, target) =>
         IF /\ Status(c) = "witness_guessing"
            /\ \E i \in 1..Len(lobbies[c].players) :
                 lobbies[c].players[i].id = s /\ lobbies[c].players[i].role = "killer"
         THEN lobbies' =
                [lobbies EXCEPT
                   ![c].status = "game_over",
                   ![c].winner =
                     IF \E i \in 1..Len(lobbies[c].players) :
                          /\ lobbies[c].players[i].id = target
                          /\ lobbies[c].players[i].role = "witness"
                     THEN "killer" ELSE "investigators"]
         ELSE lobbies' = lobbies /\ out' = <<>>]_vars

\* the killer has guessed wrong and the investigators have won
C25_Witness ==
  \E c \in DOMAIN lobbies :
    /\ lobbies[c].status = "game_over"
    /\ lobbies[c].winner = "investigators"
    /\ out = <<ToRoom("lobby_update", c)>>

\* C26: across every step the clues of a lobby that is kept are a prefix of the new clues
\* up to isTampered, which changes only from false to true; and the clues change only in
\* a step taken while the status is playing.
C26_CluesAppendOnly ==
  [][\A c \in Codes :
       Kept(c) =>
         LET old == lobbies[c].clues
             new == lobbies'[c].clues
         IN  /\ Len(old) <= Len(new)
             /\ \A i \in 1..Len(old) :
                  /\ new[i].id = old[i].id
                  /\ new[i].text = old[i].text
                  /\ new[i].foundBy = old[i].foundBy
                  /\ old[i].isTampered => new[i].isTampered
             /\ new # old => Status(c) = "playing"]_vars

\* a clue has been tampered after another was appended behind it, and the game is over
C26_Witness ==
  \E c \in DOMAIN lobbies :
    /\ lobbies[c].status = "discussion"
    /\ Len(lobbies[c].clues) >= 2
    /\ lobbies[c].clues[1].isTampered
    /\ lobbies[c].clues[1].foundBy # lobbies[c].clues[2].foundBy
    /\ \E i \in 1..Len(lobbies[c].players) :
         /\ lobbies[c].players[i].id = lobbies[c].clues[1].foundBy
         /\ lobbies[c].players[i].role # "killer"

\* the client s sends task_completed for the k-th task of the lobby c
CompletionAsked(s, c, k) ==
  /\ c \in DOMAIN lobbies
  /\ k \in 1..Len(lobbies[c].tasks)
  /\ \E r \in 0..(NumSockets - 1) : TaskCompleted(s, c, lobbies[c].tasks[k].id, r)

\* C27: a task_completed from a player for a task that player has locked with lock_task
\* neither completes the task nor appends a clue, while a task_completed during playing
\* from a player who has not locked the task, for a task not yet completed, completes it.
C27_LockedTaskStaysClosed ==
  [][\A c \in DOMAIN lobbies : \A k \in 1..Len(lobbies[c].tasks) :
       \A i \in 1..Len(lobbies[c].players) :
         LET s == lobbies[c].players[i].id
             task == lobbies[c].tasks[k]
         IN  CompletionAsked(s, c, k) =>
               IF Includes(task.lockedFor, s)
               THEN /\ lobbies'[c].tasks[k].completed = task.completed
                    /\ lobbies'[c].clues = lobbies[c].clues
               ELSE (Status(c) = "playing" /\ ~task.completed) =>
                      /\ lobbies'[c].tasks[k].completed
                      /\ Len(lobbies'[c].clues) = Len(lobbies[c].clues) + 1]_vars

\* the fields a replica is compared on: status, players without their positions, tasks, clues
Replicated(lobby) ==
  [status |-> lobby.status,
   players |-> [i \in 1..Len(lobby.players) |-> [lobby.players[i] EXCEPT !.x = 0, !.y = 0]],
   tasks |-> lobby.tasks,
   clues |-> lobby.clues]

\* C28: after every step that changes the status, the players (positions aside), the tasks
\* or the clues of a lobby, every member of its room, having held the lobby as it was and
\* applied the messages of the step, holds the lobby as it is in those fields.
C28_ReplicasConverge ==
  [][\A c \in DOMAIN lobbies' : \A m \in rooms'[c] :
       LET held == IF c \in DOMAIN lobbies /\ m \in rooms[c] THEN <<lobbies[c]>> ELSE <<>>
           now == Replay(held, out', m, c, rooms'[c], lobbies'[c])
       IN  (c \notin DOMAIN lobbies \/ Replicated(lobbies'[c]) # Replicated(lobbies[c]))
             => now # <<>> /\ Replicated(now[1]) = Replicated(lobbies'[c])]_vars

\* C29: in every state the text of every clue whose isTampered is true is derived from the
\* attributes of a player of the lobby who is not the killer.
C29_TamperedImplicatesInnocent ==
  \A c \in DOMAIN lobbies : \A i \in 1..Len(lobbies[c].clues) :
    lobbies[c].clues[i].isTampered =>
      Describes(lobbies[c].clues[i].text, lobbies[c].players, FALSE)

\* how many tasks of the lobby are completed
CompletedCount(lobby) == Cardinality({k \in 1..Len(lobby.tasks) : lobby.tasks[k].completed})

\* the step is a steal_clue that has planted a clue in the lobby c
Planted(c) ==
  /\ Len(out') = 3
  /\ out'[1] = ToRoom("clue_found", c)
  /\ out'[3].res = "planted"

\* C30: across every step the number of completed tasks of a lobby that is kept grows by
\* the number of clues appended, the clue a steal_clue plants aside; so the completed tasks
\* are as many as the clues task_completed has appended.
C30_TaskYieldsClue ==
  [][\A c \in Codes :
       Kept(c) =>
         CompletedCount(lobbies'[c]) - CompletedCount(lobbies[c]) =
           Len(lobbies'[c].clues) - Len(lobbies[c].clues) - (IF Planted(c) THEN 1 ELSE 0)]_vars

\* C31: a timer that fires on a lobby in status playing sets its status to discussion,
\* changes nothing else and broadcasts lobby_update; a timer that fires on a code without
\* lobby, or on a lobby in any other status, changes no lobby and broadcasts nothing.
C31_TimerGuarded ==
  [][TimerFire =>
       LET c == Head(timers)
       IN  IF Status(c) = "playing"
           THEN /\ lobbies' = [lobbies EXCEPT ![c].status = "discussion"]
                /\ out' = <<ToRoom("lobby_update", c)>>
           ELSE /\ lobbies' = lobbies
                /\ out' = <<>>]_vars

\* the timer of a game has fired after its lobby was destroyed
C31_Witness ==
  /\ lobbies = <<>>
  /\ timers = <<>>
  /\ uuid = NumTasks
  /\ out = <<>>

\* C32: a lobby in status playing is, at some later time, in status discussion or gone,
\* whatever the clients send meanwhile.
C32_PlayingEnds ==
  \A c \in Codes : (Status(c) = "playing") ~> (Status(c) \in {"discussion", "none"})

\* the timer has ended a game that a player had left and in which a clue was found
C32_Witness ==
  \E c \in DOMAIN lobbies :
    /\ lobbies[c].status = "discussion"
    /\ Len(lobbies[c].players) < MinPlayers
    /\ lobbies[c].clues # <<>>
    /\ out = <<ToRoom("lobby_update", c)>>

\* C33: across every step a task of a lobby that is kept stays completed if it was, and
\* its lockedFor keeps every id it held and holds no id twice; a lock_task from a client
\* whose id the task's lockedFor holds changes no lobby and broadcasts nothing.
C33_TaskFlagsOneWay ==
  [][\A c \in Codes :
       /\ (/\ c \in DOMAIN lobbies /\ c \in DOMAIN lobbies'
           /\ lobbies'[c].tasks # lobbies[c].tasks
           /\ Kept(c)) =>
            \A k \in 1..Len(lobbies[c].tasks), j \in 1..Len(lobbies'[c].tasks) :
              lobbies[c].tasks[k].id = lobbies'[c].tasks[j].id =>
                LET old == lobbies[c].tasks[k]
                    new == lobbies'[c].tasks[j]
                IN  /\ old.completed => new.completed
                    /\ \A i \in 1..Len(old.lockedFor) : Includes(new.lockedFor, old.lockedFor[i])
                    /\ \A i, h \in 1..Len(new.lockedFor) :
                         new.lockedFor[i] = new.lockedFor[h] => i = h
       /\ (c \in DOMAIN lobbies /\ (lobbies' # lobbies \/ out' # <<>>)) =>
            \A k \in 1..Len(lobbies[c].tasks) :
              \A i \in 1..Len(lobbies[c].tasks[k].lockedFor) :
                ~LockTask(lobbies[c].tasks[k].lockedFor[i], c, lobbies[c].tasks[k].id)]_vars

\* a task that two clients have locked is completed, and the last event was refused
C33_Witness ==
  \E c \in DOMAIN lobbies : \E k \in 1..Len(lobbies[c].tasks) :
    /\ lobbies[c].tasks[k].completed
    /\ Len(lobbies[c].tasks[k].lockedFor) >= 2
    /\ out = <<>>

\* C34: a move from a player of a lobby in status playing sets the x and y of that
\* player's entry and changes nothing else of any lobby, and its player_moved message
\* reaches the other members of the room and not the sender.
C34_MoveFrame ==
  [][\A s \in Sockets, c \in Codes, xy \in MoveXYs :
       (/\ Status(c) = "playing"
        /\ \E i \in 1..Len(lobbies[c].players) : lobbies[c].players[i].id = s
        /\ Move(s, c, xy[1], xy[2])) =>
         LET i == CHOOSE i \in 1..Len(lobbies[c].players) :
                    /\ lobbies[c].players[i].id = s
                    /\ \A h \in 1..(i - 1) : lobbies[c].players[h].id # s
         IN  /\ lobbies' = [lobbies EXCEPT ![c].players[i].x = xy[1],
                                           ![c].players[i].y = xy[2]]
             /\ Len(out') = 1
             /\ out'[1].ev = "player_moved"
             /\ \A m \in Sockets :
                  Reaches(out'[1], m, c, rooms'[c]) <=> (m \in rooms[c] /\ m # s)]_vars

\* a player has moved and the others have been told
C34_Witness ==
  \E c \in DOMAIN lobbies : \E i \in 1..Len(lobbies[c].players) :
    /\ lobbies[c].players[i].x = 1200
    /\ lobbies[c].players[i].y = 800
    /\ Len(out) = 1
    /\ out[1].ev = "player_moved"
    /\ out[1].sock = lobbies[c].players[i].id

\* C35: the timer that ends a playing phase is the one the start_game of that phase has
\* scheduled: timers fire in the order they were scheduled and the phase began with the last
\* start_game on its code, so no later timer for that code is pending when it fires.
C35_TimerOfThisPhase ==
  [][(/\ timers # <<>>
      /\ Status(Head(timers)) = "playing"
      /\ TimerFire) =>
        \A i \in 2..Len(timers) : timers[i] # Head(timers)]_vars

\* C36: in every state a lobby in status discussion has a player with isHost true, and a
\* lobby in status witness_guessing has a player with role killer.
C36_ActorPresent ==
  \A c \in DOMAIN lobbies :
    /\ lobbies[c].status = "discussion" =>
         \E i \in 1..Len(lobbies[c].players) : lobbies[c].players[i].isHost
    /\ lobbies[c].status = "witness_guessing" =>
         \E i \in 1..Len(lobbies[c].players) : lobbies[c].players[i].role = "killer"

\* C37: in every state the votedFor of every player is null or the id of a player of the
\* same lobby.
C37_VoteNamesPlayer ==
  \A c \in DOMAIN lobbies : \A i \in 1..Len(lobbies[c].players) :
    \/ lobbies[c].players[i].votedFor = NoId
    \/ \E j \in 1..Len(lobbies[c].players) :
         lobbies[c].players[j].id = lobbies[c].players[i].votedFor

\* C38: in every state a lobby in status lobby has no clues, no tasks, no start or end
\* time and no winner, and each of its players has no role, no vote and hasStolenClue false.
C38_LobbyCarriesNoGame ==
  \A c \in DOMAIN lobbies :
    lobbies[c].status = "lobby" =>
      /\ lobbies[c].clues = <<>>
      /\ lobbies[c].tasks = <<>>
      /\ lobbies[c].startTime = NoId
      /\ lobbies[c].endTime = NoId
      /\ lobbies[c].winner = Null
      /\ \A i \in 1..Len(lobbies[c].players) :
           /\ lobbies[c].players[i].role = Null
           /\ lobbies[c].players[i].votedFor = NoId
           /\ ~lobbies[c].players[i].hasStolenClue

\* clients have gathered in a lobby after a game was started under its code
C38_Witness ==
  \E c \in DOMAIN lobbies :
    /\ lobbies[c].status = "lobby"
    /\ Len(lobbies[c].players) >= 2
    /\ uuid >= NumTasks

\* C39: across every step a lobby that is kept and whose status is not lobby does not get
\* status lobby, and the ids of its players are among the ids it had.
C39_NoWayBackToLobby ==
  [][\A c \in Codes :
       (/\ Status(c) \notin {"lobby", "none"}
        /\ Kept(c)) =>
         /\ lobbies'[c].status # "lobby"
         /\ {lobbies'[c].players[j].id : j \in 1..Len(lobbies'[c].players)}
              \subseteq {lobbies[c].players[i].id : i \in 1..Len(lobbies[c].players)}]_vars

\* the game has gone on without a player who left, and a client asking to join was refused
C39_Witness ==
  \E c \in DOMAIN lobbies, s \in Sockets :
    /\ lobbies[c].status = "discussion"
    /\ Len(lobbies[c].players) < MinPlayers
    /\ out = <<Callback(s, "Game already in progress")>>

====
